---- MODULE Spec2Model ----
(***************************************************************************)
(* Athena web front end: the upload-validate-submit-render pipeline.       *)
(*   components/FileUpload.tsx   handleFile, handleDrop, handleFileSelect  *)
(*   components/Controls.tsx     style buttons and speed slider            *)
(*   app/page.tsx                Home state and onGenerate                 *)
(*   app/api/convert/route.ts    POST, the endpoint the page submits to    *)
(* JavaScript strings that the code inspects (file.name, file.type) are    *)
(* sequences of one-character strings, so that includes, endsWith and      *)
(* toLowerCase are computed; Str turns them into text for messages.        *)
(***************************************************************************)
EXTENDS Integers, Sequences, FiniteSets, TLC

(* ------------------------------ bounds --------------------------------- *)
\* file sizes go up to SizeSlack bytes above the upload ceiling
SizeSlack == 1
\* slider positions 0..MaxSpeedStep above the minimum, besides the default
MaxSpeedStep == 0

(* ------------------------------ strings -------------------------------- *)
RECURSIVE Str(_)
Str(s) == IF s = <<>> THEN "" ELSE Head(s) \o Str(Tail(s))

UpperAlpha == <<"A","B","C","D","E","F","G","H","I","J","K","L","M",
                "N","O","P","Q","R","S","T","U","V","W","X","Y","Z">>
LowerAlpha == <<"a","b","c","d","e","f","g","h","i","j","k","l","m",
                "n","o","p","q","r","s","t","u","v","w","x","y","z">>

LowerChar(c) ==
    IF \E i \in 1..26 : UpperAlpha[i] = c
    THEN LowerAlpha[CHOOSE i \in 1..26 : UpperAlpha[i] = c]
    ELSE c

\* String.prototype.toLowerCase
ToLowerCase(s) == [i \in 1..Len(s) |-> LowerChar(s[i])]

\* String.prototype.endsWith
EndsWith(s, suffix) ==
    /\ Len(s) >= Len(suffix)
    /\ SubSeq(s, Len(s) - Len(suffix) + 1, Len(s)) = suffix

\* String.prototype.includes
Includes(s, part) ==
    \E i \in 0..(Len(s) - Len(part)) : SubSeq(s, i + 1, i + Len(part)) = part

Pdf == <<"p","d","f">>
DotPdf == <<".","p","d","f">>
ApplicationPdf == <<"a","p","p","l","i","c","a","t","i","o","n","/","p","d","f">>

Digit == <<"0","1","2","3","4","5","6","7","8","9">>

\* decimal text of a natural number, as template literals print it
RECURSIVE NatStr(_)
NatStr(n) == IF n < 10 THEN Digit[n + 1] ELSE NatStr(n \div 10) \o Digit[(n % 10) + 1]

(* ------------------------------- files --------------------------------- *)
MiB == 1024 * 1024

ApplicationXPdf == <<"a","p","p","l","i","c","a","t","i","o","n","/","x","-","p","d","f">>

\* name and declared type of the files offered. Blob.type is ASCII-lowercased
\* by the browser and is empty when the browser does not know the type.
FileKinds ==
    { [name |-> <<"a",".","p","d","f">>, type |-> ApplicationPdf],
      [name |-> <<"a",".","p","d","f">>, type |-> <<>>],
      [name |-> <<"A",".","P","D","F">>, type |-> <<>>],
      [name |-> <<"a",".","t","x","t">>, type |-> ApplicationXPdf],
      [name |-> <<"a",".","t","x","t">>, type |-> <<>>] }

\* 20 MiB, 25 MiB and up to SizeSlack bytes above 25 MiB
FileSizes == {20 * MiB} \cup { 25 * MiB + d : d \in 0..SizeSlack }

Files == { [name |-> k.name, type |-> k.type, size |-> n] : k \in FileKinds, n \in FileSizes }

\* null of `File | null`
Null == [name |-> <<>>, type |-> <<>>, size |-> -1]
\* null of `string | null`
NullName == <<"null">>
\* undefined of `string | undefined`
Undefined == "undefined"

\* JavaScript truthiness of a string-or-undefined value
Truthy(v) == v # Undefined /\ v # ""

(* ---------------------------- FileUpload ------------------------------- *)
MaxUploadSize == 25 * 1024 * 1024

\* FileUpload.tsx:16  !file.type.includes("pdf")
TypeRejected(f) == ~Includes(f.type, Pdf)

\* a slip of the comparison: a file of exactly the ceiling is refused
TooLargeInclusive(f) == f.size >= MaxUploadSize
\* FileUpload.tsx:20  file.size > 25 * 1024 * 1024
TooLarge(f) == f.size > MaxUploadSize

ToastError(text) == [kind |-> "error", text |-> text]
ToastSuccess(text) == [kind |-> "success", text |-> text]

UnsupportedTypeToast == ToastError("Please upload a PDF file")
TooLargeToast == ToastError("File too large. Maximum size is 25MB")
LoadedToast(f) == ToastSuccess("Loaded: " \o Str(f.name))

\* the outcome of handleFile's two ordered checks
UploadVerdict(f) ==
    IF TypeRejected(f) THEN "unsupported"
    ELSE IF TooLarge(f) THEN "toolarge"
    ELSE "ok"

(* ------------------------------ Controls ------------------------------- *)
Styles == {"conversational", "academic", "simplified"}
DefaultStyle == "conversational"

\* speeds in hundredths: the slider runs from 0.8 to 1.3 in steps of 0.05
SpeedMin == 80
SpeedMax == 130
SpeedStep == 5
DefaultSpeed == 100

SliderSpeeds == { v \in SpeedMin..SpeedMax : (v - SpeedMin) % SpeedStep = 0 }
Speeds == { v \in SliderSpeeds : v <= SpeedMin + SpeedStep * MaxSpeedStep } \cup {DefaultSpeed}

\* String(speed): shortest decimal text of a number given in hundredths
SpeedStr(v) ==
    IF v % 100 = 0 THEN NatStr(v \div 100)
    ELSE IF v % 10 = 0 THEN NatStr(v \div 100) \o "." \o Digit[((v % 100) \div 10) + 1]
    ELSE NatStr(v \div 100) \o "." \o Digit[((v % 100) \div 10) + 1] \o Digit[(v % 10) + 1]

\* Number(text) for the decimal texts above, in hundredths
ParseNumber(text) == CHOOSE v \in SliderSpeeds : SpeedStr(v) = text

(* --------------------------- multipart form ---------------------------- *)
\* a slip of the form: the speed field is left at the default
FormDataDefaultSpeed(f, st, sp) == [file |-> f, style |-> st, speed |-> SpeedStr(DefaultSpeed)]
\* page.tsx:124-127  the FormData built by onGenerate
FormData(f, st, sp) == [file |-> f, style |-> st, speed |-> SpeedStr(sp)]

NoRequest == [file |-> Null, style |-> "", speed |-> ""]

(* ----------------------------- responses ------------------------------- *)
\* a response: its status and its body; parsable says the body is JSON,
\* and a JSON body is given by the fields the page and the handlers use
JsonBody(status, okField, error, audioUrl, script) ==
    [status |-> status, parsable |-> TRUE, ok |-> okField, error |-> error,
     audioUrl |-> audioUrl, script |-> script]

TextBody(status) ==
    [status |-> status, parsable |-> FALSE, ok |-> Undefined, error |-> Undefined,
     audioUrl |-> Undefined, script |-> Undefined]

NoResponse == TextBody(0)

\* Response.ok
ResOkAlways(res) == TRUE
ResOk(res) == res.status >= 200 /\ res.status <= 299

(* ------------------------ app/api/convert/route.ts --------------------- *)
ConvertIsPdf(f) ==
    \/ f.type = ApplicationPdf
    \/ EndsWith(ToLowerCase(f.name), DotPdf)

\* convert/route.ts:17; the bullet separators of the template are written "*"
DemoScript(f, st, sp) ==
    "Demo script for \"" \o Str(f.name) \o "\" * style=" \o st \o " * speed=" \o SpeedStr(sp)

ConvertPOST(form) ==
    LET file == form.file
        st == IF form.style # "" THEN form.style ELSE DefaultStyle
        sp == IF form.speed # "" THEN ParseNumber(form.speed) ELSE DefaultSpeed
    IN  IF file = Null
        THEN JsonBody(400, Undefined, "No file provided", Undefined, Undefined)
        ELSE IF ~ConvertIsPdf(file)
        THEN JsonBody(400, Undefined, "Only PDF files are allowed", Undefined, Undefined)
        ELSE JsonBody(200, "true", Undefined, "/audio/demo.mp3", DemoScript(file, st, sp))

\* What else the page's fetch can meet. A response that this handler did not
\* write comes from the platform in front of it (an uncaught exception in the
\* handler, a gateway): never 2xx, with a body that is JSON with an error
\* text, JSON without one, or not JSON at all.
PlatformResponses ==
    { TextBody(500),
      JsonBody(500, Undefined, "backend down", Undefined, Undefined),
      JsonBody(500, Undefined, "", Undefined, Undefined),
      JsonBody(502, Undefined, Undefined, Undefined, Undefined) }

\* message of the TypeError a rejected fetch carries in the browser
\* (Chromium's wording)
NetworkErrorMessage == "Failed to fetch"
\* message of the SyntaxError res.json() throws on a body that is not JSON:
\* V8's wording, in the browser and in Node alike, for the error page
\* <html><body>Internal Server Error</body></html> that TextBody stands for
ParseErrorMessage == "Unexpected token '<', \"<html><bod\"... is not valid JSON"

\* how one fetch settles: "reject" (no response), "handler" (the response
\* the convert handler computes) or "platform" (one of PlatformResponses)
Outcome(kind, res) == [kind |-> kind, res |-> res]
NoOutcome == Outcome("none", NoResponse)
Rejected == Outcome("reject", NoResponse)

\* the responses a fetch of the form can resolve to
Responses(form) ==
    {Outcome("handler", ConvertPOST(form))}
        \cup { Outcome("platform", r) : r \in PlatformResponses }

\* how the reading of the body of a resolved fetch can end: with one of the
\* responses read to its end, or, the connection being lost after the
\* headers, with res.json() rejected by the same TypeError as a fetch
BodyOutcomes(form) == Responses(form) \cup {Rejected}


(* ------------------------ app/api/process/route.ts --------------------- *)
\* process/route.ts:3, with NEXT_PUBLIC_BACKEND_URL unset
BackendUrl == "http://localhost:8000"
\* null in a JSON body
JsNull == "null"

\* files a client other than the page can post: any name with any declared type
RouteFileKinds ==
    FileKinds \cup { [name |-> <<"A",".","P","D","F">>, type |-> ApplicationPdf],
                     [name |-> <<"a",".","t","x","t">>, type |-> ApplicationPdf] }

RouteFiles ==
    { [name |-> k.name, type |-> k.type, size |-> n] : k \in RouteFileKinds, n \in FileSizes }

\* a multipart submission: file = Null is an absent file field, "" an absent
\* or empty text field
RouteForm(f, st, sp, voice, minutes, rate) ==
    [file |-> f, style |-> st, speed |-> sp, voice_preset |-> voice,
     duration_minutes |-> minutes, speaking_rate |-> rate]

NoForm == RouteForm(Null, "", "", "", "", "")

RouteForms ==
    { RouteForm(f, st, sp, "", "", rate) :
        f \in RouteFiles \cup {Null}, st \in {"", "academic"}, sp \in {"", "0.8"},
        rate \in {"", "0.8"} }

\* formData.get(name) || fallback
OrDefault(v, fallback) == IF v # "" THEN v ELSE fallback

\* process/route.ts:21
ProcessMaxSize == 20 * 1024 * 1024

\* process/route.ts:16  !file.name.endsWith('.pdf')
ProcessNotPdf(f) == ~EndsWith(f.name, DotPdf)

\* process/route.ts:27-32  the form sent on to the backend
BackendForm(form) ==
    RouteForm(form.file, OrDefault(form.style, "conversational"), "",
              OrDefault(form.voice_preset, "female_warm"),
              OrDefault(form.duration_minutes, "5"),
              OrDefault(form.speaking_rate, "1.0"))

\* a JSON body written by the process handler
ProcessBody(status, success, url, transcript, metadata, error, details) ==
    [status |-> status, parsable |-> TRUE, success |-> success, audioUrl |-> url,
     transcript |-> transcript, metadata |-> metadata, error |-> error,
     details |-> details]

ProcessError(status, error) ==
    ProcessBody(status, Undefined, Undefined, Undefined, Undefined, error, Undefined)

\* process/route.ts:58-63  the catch block
ProcessCaught(message) ==
    ProcessBody(500, Undefined, Undefined, Undefined, Undefined,
                "Failed to process PDF", message)

NoRouteResponse == ProcessError(0, Undefined)

\* a response of the backend: status, whether the body is JSON, and the
\* fields of a JSON body that the handlers read
BackendBody(status, parsable, success, url, transcript, metadata, error, detail) ==
    [status |-> status, parsable |-> parsable, success |-> success, audio_url |-> url,
     transcript |-> transcript, metadata |-> metadata, error |-> error,
     detail |-> detail]

NoBackendResponse ==
    BackendBody(0, FALSE, Undefined, Undefined, Undefined, Undefined, Undefined, Undefined)

\* how a fetch of the backend settles: rejected, or resolved to a response
BackendOutcomes ==
    { Outcome("reject", NoBackendResponse),
      Outcome("response", BackendBody(200, TRUE, "true", "/static/tmp123.mp3",
                                      "Welcome", "medium", Undefined, Undefined)),
      Outcome("response", BackendBody(200, TRUE, "false", Undefined, Undefined,
                                      Undefined, "no text found", Undefined)),
      Outcome("response", BackendBody(200, FALSE, Undefined, Undefined, Undefined,
                                      Undefined, Undefined, Undefined)),
      Outcome("response", BackendBody(500, TRUE, Undefined, Undefined, Undefined,
                                      Undefined, Undefined, "quota exceeded")),
      Outcome("response", BackendBody(422, TRUE, Undefined, Undefined, Undefined,
                                      Undefined, Undefined, Undefined)),
      Outcome("response", BackendBody(502, FALSE, Undefined, Undefined, Undefined,
                                      Undefined, Undefined, Undefined)) }

NoBackendCall == Outcome("none", NoBackendResponse)

\* message of the TypeError a rejected fetch carries in the route handler
\* (the wording of Node's fetch)
BackendFetchErrorMessage == "fetch failed"

\* process/route.ts:39-56  what the handler makes of the backend's answer b
ProcessRelay(b) ==
    IF b.kind = "reject" THEN ProcessCaught(BackendFetchErrorMessage)
    ELSE IF ~b.res.parsable THEN ProcessCaught(ParseErrorMessage)
    ELSE IF ~ResOk(b.res)
    THEN ProcessError(b.res.status, OrDefault(IF b.res.detail = Undefined THEN ""
                                              ELSE b.res.detail, "Processing failed"))
    ELSE ProcessBody(200, b.res.success,
                     IF Truthy(b.res.audio_url) THEN BackendUrl \o b.res.audio_url
                     ELSE JsNull,
                     b.res.transcript, b.res.metadata, b.res.error, Undefined)

\* process/route.ts:5-65: the response, and the forms sent to the backend
ProcessPOST(form, b) ==
    IF form.file = Null
    THEN [res |-> ProcessError(400, "No file provided"), forwarded |-> <<>>]
    ELSE IF ProcessNotPdf(form.file)
    THEN [res |-> ProcessError(400, "Only PDF files are supported"), forwarded |-> <<>>]
    ELSE IF form.file.size > ProcessMaxSize
    THEN [res |-> ProcessError(400, "File size exceeds 20MB limit"), forwarded |-> <<>>]
    ELSE [res |-> ProcessRelay(b), forwarded |-> <<BackendForm(form)>>]

\* the payload of a JSON body, as the liveness check relays it
Payload(status, message) == [status |-> status, message |-> message]

HealthBody(status, parsable, payload) ==
    [status |-> status, parsable |-> parsable, payload |-> payload]

NoPayload == Payload(Undefined, Undefined)

\* how the fetch of the backend root settles
HealthOutcomes ==
    { Outcome("reject", HealthBody(0, FALSE, NoPayload)),
      Outcome("response", HealthBody(200, TRUE, Payload("healthy", "Athena API"))),
      Outcome("response", HealthBody(200, FALSE, NoPayload)),
      Outcome("response", HealthBody(500, TRUE, Payload("error", "Internal Server Error"))),
      Outcome("response", HealthBody(404, TRUE, Payload(Undefined, "Not Found"))),
      Outcome("response", HealthBody(503, FALSE, NoPayload)) }

\* process/route.ts:67-79
ProcessGET(h) ==
    IF h.kind = "reject" \/ ~h.res.parsable
    THEN HealthBody(503, TRUE, Payload("error", "Backend not accessible"))
    ELSE HealthBody(200, TRUE, h.res.payload)

\* what the variable route records of one call of a route handler
RouteCall(handler, form, backend, forwarded, res) ==
    [handler |-> handler, form |-> form, backend |-> backend,
     forwarded |-> forwarded, res |-> res]

NoRouteCall == RouteCall("none", NoForm, NoBackendCall, <<>>, NoRouteResponse)

(* ------------------------------- state --------------------------------- *)
VARIABLES
    selectedFile,   \* FileUpload: name shown in the drop zone, or NullName
    isDragging,     \* FileUpload: a drag is over the drop zone
    file,           \* Home: the held candidate, or Null
    style,          \* Home
    speed,          \* Home, in hundredths
    loading,        \* Home: the in-flight flag
    audioUrl,       \* Home: result audio locator, or Undefined
    script,         \* Home: result transcript, or Undefined
    disabled,       \* the Generate button's disabled attribute as last rendered
    pending,        \* the forms of the fetches that have not settled, in order
    reading,        \* the forms of the fetches that resolved and whose body
                    \* is being read, in order
    lastAccepted,   \* history: the last file handleFile was given that passed both checks
    last,           \* history: what the latest handler was given and what it emitted
    route           \* history: the latest call of a route handler made by any client

vars == <<selectedFile, isDragging, file, style, speed, loading, audioUrl, script,
          disabled, pending, reading, lastAccepted, last, route>>

\* the record kept in `last`
Event(op, arg, req, out, toasts, notified, fetched, stale) ==
    [op |-> op, arg |-> arg, req |-> req, out |-> out, toasts |-> toasts,
     notified |-> notified, fetched |-> fetched, stale |-> stale]

Quiet(op) == Event(op, Null, NoRequest, NoOutcome, <<>>, <<>>, <<>>, FALSE)

Init ==
    /\ selectedFile = NullName
    /\ isDragging = FALSE
    /\ file = Null
    /\ style = DefaultStyle
    /\ speed = DefaultSpeed
    /\ loading = FALSE
    /\ audioUrl = Undefined
    /\ script = Undefined
    /\ disabled = FALSE
    /\ pending = <<>>
    /\ reading = <<>>
    /\ lastAccepted = Null
    /\ last = Quiet("init")
    /\ route = NoRouteCall

(* ---------------------- FileUpload.tsx handlers ------------------------ *)
\* a slip of the callback: it keeps the first candidate instead of replacing it
OnValidFileKeepsFirst(held, f) == IF held = Null THEN f ELSE held
\* page.tsx:212  onValidFile={setFile}: the new value of Home's file
OnValidFile(held, f) == f

\* FileUpload.tsx:15-27, called by handleDrop and by handleFileSelect
HandleFile(f) ==
    IF TypeRejected(f)
    THEN /\ last' = Event("handleFile", f, NoRequest, NoOutcome, <<UnsupportedTypeToast>>, <<>>, <<>>, FALSE)
         /\ UNCHANGED <<selectedFile, file, lastAccepted>>
    ELSE IF TooLarge(f)
    THEN /\ last' = Event("handleFile", f, NoRequest, NoOutcome, <<TooLargeToast>>, <<>>, <<>>, FALSE)
         /\ UNCHANGED <<selectedFile, file, lastAccepted>>
    ELSE /\ selectedFile' = f.name
         /\ file' = OnValidFile(file, f)
         /\ lastAccepted' = f
         /\ last' = Event("handleFile", f, NoRequest, NoOutcome, <<LoadedToast(f)>>, <<f>>, <<>>, FALSE)

\* FileUpload.tsx:29-34; f = Null is a drop that carries no file
HandleDrop(f) ==
    /\ isDragging' = FALSE
    /\ IF f # Null
       THEN HandleFile(f)
       ELSE /\ last' = Quiet("handleDrop")
            /\ UNCHANGED <<selectedFile, file, lastAccepted>>
    /\ UNCHANGED <<style, speed, loading, audioUrl, script, disabled, pending, reading, route>>

\* FileUpload.tsx:36-39; f = Null is a change event with an empty file list
HandleFileSelect(f) ==
    /\ IF f # Null
       THEN HandleFile(f)
       ELSE /\ last' = Quiet("handleFileSelect")
            /\ UNCHANGED <<selectedFile, file, lastAccepted>>
    /\ UNCHANGED <<isDragging, style, speed, loading, audioUrl, script, disabled, pending, reading, route>>

\* FileUpload.tsx:66-69
DragOver ==
    /\ isDragging' = TRUE
    /\ last' = Quiet("onDragOver")
    /\ UNCHANGED <<selectedFile, file, style, speed, loading, audioUrl, script,
                   disabled, pending, reading, lastAccepted, route>>

\* FileUpload.tsx:70
DragLeave ==
    /\ isDragging' = FALSE
    /\ last' = Quiet("onDragLeave")
    /\ UNCHANGED <<selectedFile, file, style, speed, loading, audioUrl, script,
                   disabled, pending, reading, lastAccepted, route>>

(* ------------------------- Controls handlers --------------------------- *)
OnStyle(opt) ==
    /\ style' = opt
    /\ last' = Quiet("onStyle")
    /\ UNCHANGED <<selectedFile, isDragging, file, speed, loading, audioUrl, script,
                   disabled, pending, reading, lastAccepted, route>>

OnSpeed(v) ==
    /\ speed' = v
    /\ last' = Quiet("onSpeed")
    /\ UNCHANGED <<selectedFile, isDragging, file, style, loading, audioUrl, script,
                   disabled, pending, reading, lastAccepted, route>>

(* --------------------------- page.tsx onGenerate ----------------------- *)
NoCandidateToast == ToastError("Please upload a PDF first.")
\* page.tsx:135, without the emoji that ends the text
ReadyToast == ToastSuccess("Your podcast is ready")

\* a slip of the guard: the request is built although no file is held
NoCandidateNever(f) == FALSE
\* page.tsx:119  !file
NoCandidate(f) == f = Null

\* a slip of the start: the previous result is left in place
GenerateBeginKeepsResult == [loading |-> TRUE, audioUrl |-> audioUrl, script |-> script]
\* page.tsx:120-122  the three state updates that start a generation
GenerateBegin == [loading |-> TRUE, audioUrl |-> Undefined, script |-> Undefined]

\* a slip of the attribute: the button is never disabled
DisabledAttrNever(isLoading) == FALSE
\* page.tsx:228  disabled={loading}
DisabledAttr(isLoading) == isLoading

\* page.tsx:118-129: the click handler up to the await of fetch. The button
\* carries disabled={loading}; the updates of a click are rendered before the
\* next event is dispatched, so the attribute is set when the handler returns.
OnGenerate ==
    /\ ~disabled
    /\ IF NoCandidate(file)
       THEN /\ last' = Event("onGenerate", Null, NoRequest, NoOutcome,
                             <<NoCandidateToast>>, <<>>, <<>>, FALSE)
            /\ UNCHANGED <<loading, audioUrl, script, disabled, pending>>
       ELSE LET fd == FormData(file, style, speed)
            IN  /\ loading' = GenerateBegin.loading
                /\ audioUrl' = GenerateBegin.audioUrl
                /\ script' = GenerateBegin.script
                /\ pending' = Append(pending, fd)
                /\ disabled' = DisabledAttr(GenerateBegin.loading)
                /\ last' = Event("onGenerate", file, fd, NoOutcome, <<>>, <<>>, <<fd>>,
                                 audioUrl # Undefined \/ script # Undefined)
    /\ UNCHANGED <<selectedFile, isDragging, file, style, speed, reading, lastAccepted, route>>

\* what lines 129-138 make of a settled fetch: the error thrown, if any,
\* and the result fields to set
Thrown(message) == [thrown |-> TRUE, message |-> message,
                    audioUrl |-> Undefined, script |-> Undefined]

\* a slip of the field name: the transcript is read from the wrong field
ResultScriptWrongField(json) == json.ok
\* page.tsx:134  json.script
ResultScript(json) == json.script

GenerateResult(o) ==
    IF o.kind = "reject" THEN Thrown(NetworkErrorMessage)
    ELSE IF ~o.res.parsable THEN Thrown(ParseErrorMessage)
    ELSE IF ~ResOk(o.res)
    THEN Thrown(IF Truthy(o.res.error) THEN o.res.error ELSE "Failed to convert")
    ELSE [thrown |-> FALSE, message |-> "",
          audioUrl |-> o.res.audioUrl, script |-> ResultScript(o.res)]

\* a slip of the ending: the flag is cleared on the success path only
FinallyLoadingOnSuccessOnly(r) == r.thrown
\* page.tsx:139-141  finally { setLoading(false) }
FinallyLoading(r) == FALSE

RemoveAt(q, i) == SubSeq(q, 1, i - 1) \o SubSeq(q, i + 1, Len(q))

\* page.tsx:131-141: the end of the continuation for the request req whose
\* fetch settled with outcome o: the rest of the try block or the catch
\* block, then the finally block; the state updates are batched into one
\* render
Finish(req, o) ==
    LET r == GenerateResult(o)
    IN  /\ IF r.thrown
           THEN /\ last' = Event("settle", Null, req, o,
                                 <<ToastError(IF r.message # "" THEN r.message
                                              ELSE "Something went wrong")>>,
                                 <<>>, <<>>, FALSE)
                /\ UNCHANGED <<audioUrl, script>>
           ELSE /\ audioUrl' = r.audioUrl
                /\ script' = r.script
                /\ last' = Event("settle", Null, req, o, <<ReadyToast>>,
                                 <<>>, <<>>, FALSE)
        /\ loading' = FinallyLoading(r)
        /\ UNCHANGED <<selectedFile, isDragging, file, style, speed, disabled,
                       lastAccepted, route>>

\* page.tsx:129, 137-141: fetch number i is rejected. The TypeError is
\* thrown into the catch block and the handler ends in the same task.
FetchReject(i) ==
    /\ Finish(pending[i], Rejected)
    /\ pending' = RemoveAt(pending, i)
    /\ UNCHANGED reading

\* page.tsx:129-130: fetch number i resolves. The handler resumes, calls
\* res.json() and returns to the event loop a second time without having
\* changed the page's state: the request now waits for its body. Nothing
\* reads the response before the body is there, so the response is drawn
\* as a whole, status and body, in BodySettle.
FetchResolve(i) ==
    /\ pending' = RemoveAt(pending, i)
    /\ reading' = Append(reading, pending[i])
    /\ last' = Quiet("resolve")
    /\ UNCHANGED <<selectedFile, isDragging, file, style, speed, loading,
                   audioUrl, script, disabled, lastAccepted, route>>

\* page.tsx:130-141: the reading of the body of request number j of those
\* being read ends with outcome o, the response whose body arrived or the
\* rejection of a body that did not; res.json() settles and the handler
\* runs to its end
BodySettle(j, o) ==
    /\ Finish(reading[j], o)
    /\ reading' = RemoveAt(reading, j)
    /\ UNCHANGED pending

\* the render scheduled by the continuation's updates: page.tsx:225-231
Render ==
    /\ disabled # DisabledAttr(loading)
    /\ disabled' = DisabledAttr(loading)
    /\ last' = Quiet("render")
    /\ UNCHANGED <<selectedFile, isDragging, file, style, speed, loading, audioUrl, script,
                   pending, reading, lastAccepted, route>>

\* the awaited fetch settles: some pending request is rejected or answered
FetchSettles == \E i \in 1..Len(pending) : FetchReject(i) \/ FetchResolve(i)

\* the awaited res.json() settles: some response's body has been read, or
\* its reading has failed
BodySettles ==
    \E j \in 1..Len(reading) : \E o \in BodyOutcomes(reading[j]) : BodySettle(j, o)

Next ==
    \/ \E f \in Files \cup {Null} : HandleDrop(f)
    \/ \E f \in Files \cup {Null} : HandleFileSelect(f)
    \/ DragOver
    \/ DragLeave
    \/ \E opt \in Styles : OnStyle(opt)
    \/ \E v \in Speeds : OnSpeed(v)
    \/ OnGenerate
    \/ \E i \in 1..Len(pending) : FetchReject(i)
    \/ \E i \in 1..Len(pending) : FetchResolve(i)
    \/ \E j \in 1..Len(reading) : \E o \in BodyOutcomes(reading[j]) : BodySettle(j, o)
    \/ Render

Spec == Init /\ [][Next]_vars

\* The page under the premise that every fetch settles: fairness is put on
\* the fetch and not on the reading of the body, which a server that has
\* sent its headers can leave unfinished. The files offered are those of
\* 20 MiB, and the speed and the drag state are left alone: neither is read
\* by the code that sets and clears loading.
LiveFiles == { f \in Files : f.size = 20 * MiB }

LiveNext ==
    \/ \E f \in LiveFiles : HandleFileSelect(f)
    \/ \E opt \in Styles : OnStyle(opt)
    \/ OnGenerate
    \/ FetchSettles
    \/ BodySettles
    \/ Render

LiveSpec == Init /\ [][LiveNext]_vars /\ WF_vars(FetchSettles)

(* ------------------- the route handlers, called directly ---------------- *)
pageVars == <<selectedFile, isDragging, file, style, speed, loading, audioUrl, script,
              disabled, pending, reading, lastAccepted, last>>

\* convert/route.ts:3-19  POST /api/convert
ConvertPost(form) ==
    /\ route' = RouteCall("convertPOST", form, NoBackendCall, <<>>, ConvertPOST(form))
    /\ UNCHANGED pageVars

\* process/route.ts:5-65  POST /api/process; b is how the backend answers
\* if it is called
ProcessPost(form, b) ==
    LET r == ProcessPOST(form, b)
    IN  /\ route' = RouteCall("processPOST", form,
                              IF r.forwarded = <<>> THEN NoBackendCall ELSE b,
                              r.forwarded, r.res)
        /\ UNCHANGED pageVars

\* process/route.ts:67-79  GET /api/process; h is how the backend root answers
ProcessGet(h) ==
    /\ route' = RouteCall("GET", NoForm, h, <<>>, ProcessGET(h))
    /\ UNCHANGED pageVars

RouteNext ==
    \/ \E form \in RouteForms : ConvertPost(form)
    \/ \E form \in RouteForms : \E b \in BackendOutcomes : ProcessPost(form, b)
    \/ \E h \in HealthOutcomes : ProcessGet(h)

RouteSpec == Init /\ [][RouteNext]_vars

TypeOK ==
    /\ file \in Files \cup {Null}
    /\ loading \in BOOLEAN
    /\ disabled \in BOOLEAN
    /\ style \in Styles
    /\ speed \in Speeds

(* ------------------------------ claims --------------------------------- *)
\* the op under which a call of handleFile is recorded
HandleOps == {"handleFile"}
\* the latest handler was handleFile, called on last.arg
HandledFile == last.op \in HandleOps /\ last.arg # Null
\* the latest handler was the continuation of a fetch that got a response
SettledWithResponse == last.op = "settle" /\ last.out.kind \in {"handler", "platform"}
Status2xx(res) == res.status \in 200..299
GenericFallbacks == {"Failed to convert", "Something went wrong"}

\* C1: a file whose name does not end in ".pdf" (in any letter case) and
\* whose declared type is not application/pdf, of whatever size, is rejected
\* by handleFile with the unsupported-type error, onValidFile is not called,
\* and selectedFile and the page's file are left as they were.
C1_NonPdfRejected ==
    [][ ( /\ last'.op \in HandleOps
          /\ last'.arg # Null
          /\ ~EndsWith(ToLowerCase(last'.arg.name), DotPdf)
          /\ last'.arg.type # ApplicationPdf )
        => ( /\ last'.toasts = <<UnsupportedTypeToast>>
             /\ last'.notified = <<>>
             /\ selectedFile' = selectedFile
             /\ file' = file ) ]_vars

\* C2: a file within the 25 MiB ceiling whose declared type is
\* application/pdf, or whose name ends in ".pdf" in any letter case whatever
\* its declared type, is accepted by handleFile and reported through
\* onValidFile.
C2_PdfByTypeOrNameAccepted ==
    ( /\ HandledFile
      /\ last.arg.size <= 25 * MiB
      /\ \/ last.arg.type = ApplicationPdf
         \/ EndsWith(ToLowerCase(last.arg.name), DotPdf) )
    => ( /\ last.notified = <<last.arg>>
         /\ file = last.arg )

\* C3: a file that passes handleFile's type check and is larger than 25 MiB
\* is rejected with the too-large error, whose message names the limit in
\* MiB; no candidate is recorded, onValidFile is not called and no request
\* is issued. A file of exactly 25 MiB is not rejected for its size.
C3_TooLargeRejected ==
    [][ /\ ( /\ last'.op \in HandleOps
             /\ last'.arg # Null
             /\ Includes(last'.arg.type, Pdf)
             /\ last'.arg.size > 25 * MiB )
           => ( /\ last'.toasts =
                      <<ToastError("File too large. Maximum size is " \o NatStr(25) \o "MB")>>
                /\ last'.notified = <<>>
                /\ last'.fetched = <<>>
                /\ pending' = pending
                /\ selectedFile' = selectedFile
                /\ file' = file )
        /\ ( /\ last'.op \in HandleOps
             /\ last'.arg # Null
             /\ Includes(last'.arg.type, Pdf)
             /\ last'.arg.size = 25 * MiB )
           => ( /\ last'.toasts = <<LoadedToast(last'.arg)>>
                /\ last'.notified = <<last'.arg>> ) ]_vars

\* a too-large file with a PDF type was refused while a candidate was held
C3_Witness ==
    /\ HandledFile
    /\ Includes(last.arg.type, Pdf)
    /\ last.arg.size > 25 * MiB
    /\ last.toasts = <<TooLargeToast>>
    /\ file # Null

\* C4: an accepted file is passed to onValidFile exactly once, as the same
\* file, and replaces the candidate held before; a rejected file is not
\* passed on. After any sequence of selections and drops the page's file is
\* the most recently accepted file, and the drop zone shows its name.
C4_HeldIsLatestAccepted ==
    /\ file = lastAccepted
    /\ selectedFile = IF lastAccepted = Null THEN NullName ELSE lastAccepted.name
    /\ (HandledFile /\ UploadVerdict(last.arg) = "ok")
         => (last.notified = <<last.arg>> /\ file = last.arg)
    /\ (HandledFile /\ UploadVerdict(last.arg) # "ok") => last.notified = <<>>

\* a file was accepted while a request for a different, earlier candidate
\* was still pending: the earlier candidate has been replaced
C4_Witness ==
    /\ HandledFile
    /\ last.notified = <<last.arg>>
    /\ pending # <<>>
    /\ pending[1].file # file

\* C5: onGenerate issues a request only when a candidate is held, the
\* request carries that candidate, and the candidate passed handleFile's
\* checks; no other handler issues a request. Triggered with no candidate,
\* onGenerate shows the "Please upload a PDF first." error, issues no
\* request and leaves loading, audioUrl and script as they were.
C5_RequestNeedsCandidate ==
    [][ /\ (last'.op = "onGenerate" /\ file = Null)
           => ( /\ last'.toasts = <<NoCandidateToast>>
                /\ last'.fetched = <<>>
                /\ pending' = pending
                /\ loading' = loading
                /\ audioUrl' = audioUrl
                /\ script' = script )
        /\ (Len(pending') > Len(pending))
           => ( /\ last'.op = "onGenerate"
                /\ file # Null
                /\ pending' = Append(pending, last'.req)
                /\ last'.fetched = <<last'.req>>
                /\ last'.req.file = file
                /\ UploadVerdict(file) = "ok" )
        /\ (last'.fetched # <<>>) => (Len(pending') > Len(pending)) ]_vars

\* generation was triggered with no candidate held
C5_Witness ==
    /\ last.op = "onGenerate"
    /\ last.toasts = <<NoCandidateToast>>
    /\ file = Null

\* C6: after a generation that received a 2xx response, audioUrl and script
\* equal the audioUrl and script of the response body, the success
\* notification is shown and loading is false.
C6_SuccessPopulatesResult ==
    (SettledWithResponse /\ Status2xx(last.out.res))
    => ( /\ audioUrl = last.out.res.audioUrl
         /\ script = last.out.res.script
         /\ last.toasts = <<ReadyToast>>
         /\ loading = FALSE )

\* a 2xx response that carries a locator and a transcript has been applied
C6_Witness ==
    /\ SettledWithResponse
    /\ Status2xx(last.out.res)
    /\ last.out.res.audioUrl # Undefined
    /\ last.out.res.script # Undefined

GenerationFailed ==
    /\ last.op = "settle"
    /\ \/ last.out.kind = "reject"
       \/ ~Status2xx(last.out.res)
       \/ ~last.out.res.parsable

\* C7: after a failed generation (a rejected fetch, a non-2xx response, or
\* a body that cannot be read) audioUrl and script are unset, one error
\* notification is shown and loading is false.
C7_FailureLeavesNoResult ==
    GenerationFailed
    => ( /\ audioUrl = Undefined
         /\ script = Undefined
         /\ Len(last.toasts) = 1
         /\ last.toasts[1].kind = "error"
         /\ loading = FALSE )

\* a generation failed on a non-2xx response whose body parsed
C7_Witness ==
    /\ GenerationFailed
    /\ last.out.kind = "handler"
    /\ last.out.res.parsable

\* C8: on a non-2xx response the error notification's text is the body's
\* error message when the body has one, and otherwise (no error field, or a
\* body that is not JSON) the generic fallback message.
C8_ErrorTextFromBodyOrFallback ==
    (SettledWithResponse /\ ~Status2xx(last.out.res))
    => ( /\ Len(last.toasts) = 1
         /\ last.toasts[1].kind = "error"
         /\ IF last.out.res.parsable /\ Truthy(last.out.res.error)
            THEN last.toasts[1].text = last.out.res.error
            ELSE last.toasts[1].text \in GenericFallbacks )

\* C9: whenever loading is true, audioUrl and script are both unset.
C9_LoadingHidesResult ==
    loading => (audioUrl = Undefined /\ script = Undefined)

\* a generation was started while an earlier result was on display
C9_Witness ==
    /\ loading
    /\ last.op = "onGenerate"
    /\ last.stale

\* C10: the handler that receives the page's submission answers every file
\* larger than 20 MiB with a non-2xx status, so that no such file yields a
\* success response.
C10_HandlerRejectsOver20MiB ==
    ( /\ last.op = "settle"
      /\ last.out.kind = "handler"
      /\ last.req.file.size > 20 * MiB )
    => ~Status2xx(last.out.res)

(* ----------------------- claims on the route handlers ------------------ *)
RoutePosted == route.handler \in {"convertPOST", "processPOST"}
\* the submitted file is a PDF by its declared type or by its extension
SubmittedIsPdf ==
    \/ route.form.file.type = ApplicationPdf
    \/ EndsWith(ToLowerCase(route.form.file.name), DotPdf)
UnsupportedTypeErrors == {"Only PDF files are allowed", "Only PDF files are supported"}

\* C11: a route handler answers a submitted file with the unsupported-type
\* error and status 400 exactly when the file's declared type is not
\* application/pdf and its name does not end in ".pdf" in any letter case.
C11_RouteAcceptsPdfByTypeOrName ==
    (RoutePosted /\ route.form.file # Null)
    => ( (route.res.status = 400 /\ route.res.error \in UnsupportedTypeErrors)
         <=> ~SubmittedIsPdf )

\* C12: a submission that fails validation (no file field, not a PDF, or a
\* file over the 20 MiB ceiling) is answered with an error body and a
\* non-2xx status and nothing is sent to the backend; a missing file is
\* reported as such whatever else the submission holds.
C12_InvalidNeverForwarded ==
    ( /\ RoutePosted
      /\ \/ route.form.file = Null
         \/ ~SubmittedIsPdf
         \/ route.form.file.size > 20 * MiB )
    => ( /\ ~Status2xx(route.res)
         /\ Truthy(route.res.error)
         /\ route.forwarded = <<>>
         /\ (route.form.file = Null) => (route.res.error = "No file provided") )

\* C13: GET answers 503 whenever the backend root cannot be reached or
\* answers with a status other than 200; only a 200 answer of the backend
\* is relayed as a success.
C13_HealthNon200Is503 ==
    (route.handler = "GET")
    => ( /\ (route.backend.kind = "reject" \/ route.backend.res.status # 200)
            => route.res.status = 503
         /\ Status2xx(route.res) => route.backend.res.status = 200 )

(* ------------------------ claims on the page, continued ---------------- *)
\* the number of requests in flight: fetches not settled and bodies not read
InFlight == Len(pending) + Len(reading)

\* C14 as stated: whenever loading is true it becomes false again, given
\* only that the fetch settles (resolves or rejects).
C14_ClearedOnceFetchSettles == loading ~> ~loading

\* C14: whenever loading is true it becomes false again, given that the
\* fetch settles and that the reading of the body of a fetch that resolved
\* settles too: on a 2xx response, a non-2xx response, a rejected fetch and
\* a body that cannot be parsed alike.
C14_LoadingEventuallyCleared == WF_vars(BodySettles) => (loading ~> ~loading)

\* a generation ended on a body that could not be parsed, and loading is false
C14_Witness ==
    /\ last.op = "settle"
    /\ last.out.kind = "platform"
    /\ ~last.out.res.parsable
    /\ last.toasts = <<ToastError(ParseErrorMessage)>>
    /\ ~loading

\* C15: at most one request is in flight; one is in flight exactly while
\* loading is true, and the trigger is then disabled.
C15_AtMostOneInFlight ==
    /\ InFlight <= 1
    /\ (InFlight = 1) <=> loading
    /\ loading => disabled

\* the fetch of the one request has resolved and its body is still being
\* read, the user has acted on another control since, and the trigger
\* cannot fire
C15_Witness ==
    /\ Len(reading) = 1
    /\ pending = <<>>
    /\ last.op \in HandleOps \cup {"onStyle", "onSpeed"}
    /\ ~ENABLED OnGenerate

OptionOps == {"onStyle", "onSpeed"}

\* C16: the request onGenerate builds carries the file, style and speed held
\* when it is triggered. While the request is in flight the file, style and
\* speed controls stay usable, and using them changes neither the request
\* in flight nor loading nor the result fields. The response that arrives is
\* the one for the request as it was sent, and it is applied to the result.
C16_RequestFrozenAtTrigger ==
    /\ [] ( InFlight > 0
            => ( /\ \A opt \in Styles : ENABLED OnStyle(opt)
                 /\ \A v \in Speeds : ENABLED OnSpeed(v)
                 /\ \A f \in Files : ENABLED HandleFileSelect(f)
                 /\ \A f \in Files : ENABLED HandleDrop(f) ) )
    /\ [][  /\ (last'.op = "onGenerate" /\ last'.fetched # <<>>)
               => ( /\ last'.req.file = file
                    /\ last'.req.style = style
                    /\ last'.req.speed = SpeedStr(speed)
                    /\ pending' = Append(pending, last'.req) )
            /\ (InFlight > 0 /\ last'.op \in HandleOps \cup OptionOps)
               => ( /\ pending' = pending
                    /\ reading' = reading
                    /\ loading' = loading
                    /\ audioUrl' = audioUrl
                    /\ script' = script )
            /\ (last'.op = "resolve")
               => ( /\ \E i \in 1..Len(pending) :
                         /\ pending' = RemoveAt(pending, i)
                         /\ reading' = Append(reading, pending[i])
                    /\ loading' = loading
                    /\ audioUrl' = audioUrl
                    /\ script' = script )
            /\ (last'.op = "settle")
               => ( /\ \/ \E i \in 1..Len(pending) :
                            /\ last'.out.kind = "reject"
                            /\ last'.req = pending[i]
                            /\ pending' = RemoveAt(pending, i)
                            /\ reading' = reading
                       \/ \E j \in 1..Len(reading) :
                            /\ last'.out \in BodyOutcomes(reading[j])
                            /\ last'.req = reading[j]
                            /\ reading' = RemoveAt(reading, j)
                            /\ pending' = pending
                    /\ (last'.out.kind = "handler")
                         => last'.out.res = ConvertPOST(last'.req)
                    /\ (last'.out.kind = "handler" /\ Status2xx(last'.out.res))
                         => ( /\ audioUrl' = last'.out.res.audioUrl
                              /\ script' = DemoScript(last'.req.file, last'.req.style,
                                                      ParseNumber(last'.req.speed)) ) )
          ]_vars

\* the response of a request was applied after the file, the style and the
\* speed had all been changed while it was in flight
C16_Witness ==
    /\ last.op = "settle"
    /\ last.out.kind = "handler"
    /\ Status2xx(last.out.res)
    /\ audioUrl = last.out.res.audioUrl
    /\ last.req.file # file
    /\ last.req.style # style
    /\ last.req.speed # SpeedStr(speed)

====
